---- MODULE Spec2Model ----
(***************************************************************************)
(* covid19API: the daily-report date probe (app/utils/get_data.py) and the *)
(* request wrappers and route handlers (app/main.py).                      *)
(*                                                                         *)
(* Python strings that the code inspects (lower(), len(), `in`, split())   *)
(* are sequences of one-character strings; dates are day numbers counted   *)
(* from 1970-01-01 and strftime('%m-%d-%Y') is computed on them.           *)
(***************************************************************************)
EXTENDS Integers, Sequences, FiniteSets, TLC

(***************************************************************************)
(* Bounds of the model.                                                    *)
(***************************************************************************)
\* largest time_delta for which the probe loop is still stepped
MaxDelta == 4
\* how many times the UTC date may change while one probe runs
MaxClockTicks == 2
\* the "configured maximum lookback" of the specification (the code has none)
MaxLookback == 2
\* worker threads of the server that handle requests
NThreads == 2
\* requests that arrive in one run
MaxReq == 3
\* how many times the model lets time pass for the cache entry
MaxElapse == 2

(***************************************************************************)
(* Dates: datetime.strftime('%m-%d-%Y') on a day number.                   *)
(***************************************************************************)
\* proleptic Gregorian calendar: day number -> <<year, month, day>>
CivilFromDays(z0) ==
    LET z   == z0 + 719468
        era == z \div 146097
        doe == z - era * 146097
        yoe == (doe - (doe \div 1460) + (doe \div 36524) - (doe \div 146096)) \div 365
        doy == doe - (365 * yoe + (yoe \div 4) - (yoe \div 100))
        mp  == (5 * doy + 2) \div 153
        d   == doy - ((153 * mp + 2) \div 5) + 1
        m   == IF mp < 10 THEN mp + 3 ELSE mp - 9
        y   == yoe + era * 400 + (IF m <= 2 THEN 1 ELSE 0)
    IN  <<y, m, d>>

\* strftime('%m-%d-%Y'): month, day, year
strftime(day) ==
    LET c == CivilFromDays(day) IN <<c[2], c[3], c[1]>>

\* JHU_CSSE_FILE_PATHS['BASE_URL_DAILY_REPORTS'].format(current_datetime)
DailyReportUrl(datestr) == <<"daily_reports", datestr>>

\* a step back that is one day too long: timedelta(time_delta + 1)
StepBackSkip(today, delta) == today - (delta + 1)

\* datetime.utcnow() - timedelta(time_delta), as a day number
StepBack(today, delta) == today - delta

\* the UTC dates on which a probe may start: 2020-03-01 (the day after a
\* leap day) and 2021-01-01 (the day after a year's end)
StartDays == {18322, 18628}

\* HTTP status codes the remote host answers a dated resource with
StatusCodes == {200, 404, 500}

\* the dates whose resources the model gives a status; any other is 404
WindowOf(day) == (day - MaxDelta - 1) .. (day + 1)

(***************************************************************************)
(* Python strings.                                                         *)
(***************************************************************************)
UpperCase == <<"A", "B", "C", "D", "E", "F", "G", "H", "I", "J", "K", "L", "M",
               "N", "O", "P", "Q", "R", "S", "T", "U", "V", "W", "X", "Y", "Z">>
LowerCase == <<"a", "b", "c", "d", "e", "f", "g", "h", "i", "j", "k", "l", "m",
               "n", "o", "p", "q", "r", "s", "t", "u", "v", "w", "x", "y", "z">>

LowerChar(c) ==
    IF \E i \in 1 .. 26 : UpperCase[i] = c
    THEN LowerCase[CHOOSE i \in 1 .. 26 : UpperCase[i] = c]
    ELSE c

\* str.lower()
Lower(s) == [i \in 1 .. Len(s) |-> LowerChar(s[i])]

\* sub in s
Contains(sub, s) ==
    \E i \in 0 .. (Len(s) - Len(sub)) : SubSeq(s, i + 1, i + Len(sub)) = sub

\* s.split(c)[0]
SplitFirst(s, c) ==
    IF \E i \in 1 .. Len(s) : s[i] = c
    THEN SubSeq(s, 1, (CHOOSE i \in 1 .. Len(s) :
                          s[i] = c /\ \A j \in 1 .. (i - 1) : s[j] # c) - 1)
    ELSE s

\* s.split(c)[-1]
SplitLast(s, c) ==
    IF \E i \in 1 .. Len(s) : s[i] = c
    THEN SubSeq(s, (CHOOSE i \in 1 .. Len(s) :
                       s[i] = c /\ \A j \in (i + 1) .. Len(s) : s[j] # c) + 1, Len(s))
    ELSE s

\* s.strip(): leading and trailing blanks removed
RECURSIVE Strip(_)
Strip(s) ==
    IF s = <<>> THEN s
    ELSE IF Head(s) = " " THEN Strip(Tail(s))
    ELSE IF s[Len(s)] = " " THEN Strip(SubSeq(s, 1, Len(s) - 1))
    ELSE s

\* s.replace(' ', '_')
ReplaceBlanks(s) == [i \in 1 .. Len(s) |-> IF s[i] = " " THEN "_" ELSE s[i]]

s_us == <<"u", "s">>
s_uk == <<"u", "k">>
s_dt == <<"d", "t">>
s_ts == <<"t", "s">>
s_global == <<"g", "l", "o", "b", "a", "l">>
s_confirmed == <<"c", "o", "n", "f", "i", "r", "m", "e", "d">>
s_deaths == <<"d", "e", "a", "t", "h", "s">>
s_recovered == <<"r", "e", "c", "o", "v", "e", "r", "e", "d">>

\* request inputs: {case} values
in_Confirmed == <<"C", "o", "n", "f", "i", "r", "m", "e", "d">>
in_DEATHS == <<"D", "E", "A", "T", "H", "S">>
in_active == <<"a", "c", "t", "i", "v", "e">>
in_bogus == <<"b", "o", "g", "u", "s">>
in_Global == <<"G", "l", "o", "b", "a", "l">>

\* request inputs: {country_name} values
in_th == <<"t", "h">>
in_TH == <<"T", "H">>
in_gn == <<"g", "n">>
in_kr == <<"k", "r">>
in_gb == <<"g", "b">>
in_zz == <<"z", "z">>
in_US == <<"U", "S">>
in_guinea == <<"g", "u", "i", "n", "e", "a">>
in_mars == <<"m", "a", "r", "s">>

\* names of ISO 3166 entries, as pycountry holds them
iso_Thailand == <<"T", "h", "a", "i", "l", "a", "n", "d">>
iso_Guinea == <<"G", "u", "i", "n", "e", "a">>
iso_Korea == <<"K", "o", "r", "e", "a", ",", " ", "R", "e", "p", "u", "b", "l", "i", "c", " ", "o", "f">>
iso_UK == <<"U", "n", "i", "t", "e", "d", " ", "K", "i", "n", "g", "d", "o", "m">>

\* country names of the upstream tables
loc_GuineaBissau == <<"G", "u", "i", "n", "e", "a", "-", "B", "i", "s", "s", "a", "u">>
loc_Guinea == <<"G", "u", "i", "n", "e", "a">>
loc_Thailand == <<"T", "h", "a", "i", "l", "a", "n", "d">>
loc_US == <<"U", "S">>
loc_KoreaSouth == <<"K", "o", "r", "e", "a", ",", " ", "S", "o", "u", "t", "h">>
loc_UnitedKingdom == <<"U", "n", "i", "t", "e", "d", " ", "K", "i", "n", "g", "d", "o", "m">>

\* the upstream data a facade may be built from: country names in source order
Datasets ==
    << <<loc_GuineaBissau, loc_Guinea, loc_Thailand, loc_US>>,
       <<loc_Thailand, loc_KoreaSouth, loc_UnitedKingdom>> >>

CountryInputs == {in_th, in_TH, in_gn, in_kr, in_gb, in_zz, in_US, in_guinea,
                  in_mars}

CaseInputs == {s_confirmed, in_Confirmed, in_DEATHS, s_recovered, in_Global,
               in_active, in_bogus}

(***************************************************************************)
(* Python values: None, a facade object, the bytes of a pickled facade.    *)
(***************************************************************************)
None == [tag |-> "None", api |-> "", id |-> 0, ds |-> 0]

\* NovelCoronaAPI() / NovelCoronaAPIv2(): the id tells the builds apart, ds
\* is the upstream data the build read
NewFacade(api, id, ds) == [tag |-> "facade", api |-> api, id |-> id, ds |-> ds]

pickle_dumps(obj) == [obj EXCEPT !.tag = "bytes"]

\* pickle.loads raises TypeError on anything that is not bytes
CanLoad(b) == b.tag = "bytes"
pickle_loads(b) == [b EXCEPT !.tag = "facade"]

\* a test of the cache that never finds the entry
TruthyNever(v) == FALSE

\* bool(value): None and empty bytes are false, a pickle is never empty
Truthy(v) == v.tag # "None"

(***************************************************************************)
(* lookup_country (main.py:75-82).                                         *)
(***************************************************************************)
\* pycountry.countries: alpha-2 code -> name
Pycountry ==
    (in_th :> iso_Thailand) @@ (in_gn :> iso_Guinea) @@ (in_kr :> iso_Korea)
    @@ (in_gb :> iso_UK)

\* pycountry.countries.lookup(country) finds an entry (it raises LookupError
\* otherwise); the lookup ignores case
CanLookup(country) == Lower(country) \in DOMAIN Pycountry

lookup_country(country) ==
    LET country_name == Pycountry[Lower(country)]
    IN  IF Contains(<<",">>, country_name) THEN SplitFirst(country_name, ",")
        ELSE IF Contains(<<" ">>, country_name) THEN SplitLast(country_name, " ")
        ELSE country_name

(***************************************************************************)
(* Responses.                                                              *)
(***************************************************************************)
\* a returned value: the facade it was computed from and the keys (v1) or
\* locations (v2) it carries; called: a facade operation was invoked
Ok(f, keys) ==
    [status |-> 200, detail |-> "", exc |-> "", facade |-> f.id, keys |-> keys,
     called |-> TRUE]

\* raise HTTPException(status_code=code, detail=detail)
HTTPException(code, detail, called) ==
    [status |-> code, detail |-> detail, exc |-> "", facade |-> 0, keys |-> <<>>,
     called |-> called]

\* an exception that leaves the handler: the server answers 500
Unhandled(exc, called) ==
    [status |-> 500, detail |-> "Internal Server Error", exc |-> exc,
     facade |-> 0, keys |-> <<>>, called |-> called]

NoResponse ==
    [status |-> 0, detail |-> "", exc |-> "", facade |-> 0, keys |-> <<>>,
     called |-> FALSE]

\* str(e) of the exception a facade operation raises
FacadeError == "facade error"

(***************************************************************************)
(* The v2 route handlers (main.py:108-211).                                *)
(***************************************************************************)
V2Simple == {"/v2/current", "/v2/total", "/v2/confirmed", "/v2/deaths",
             "/v2/recovered", "/v2/active"}

\* novel_corona_api_v2.get_current()['data']: one record per location
V2Locations(f) == Datasets[f.ds]

\* get_current .. get_active: try / except Exception -> 400
get_simple_v2(f, raises) ==
    IF raises THEN HTTPException(400, FacadeError, TRUE) ELSE Ok(f, <<>>)

\* the branch test of main.py:186 and main.py:274
IsIsoCode(country_name) ==
    Lower(country_name) \notin {s_us, s_uk} /\ Len(country_name) \in {2}

get_country(f, country_name, raises) ==
    IF raises THEN Unhandled(FacadeError, TRUE)
    ELSE LET raw == V2Locations(f)
             name == lookup_country(country_name)
             Sub(loc) == Contains(Lower(name), Lower(loc))
             Eq(loc) == Lower(country_name) = Lower(loc)
         IN  IF IsIsoCode(country_name)
             THEN IF ~CanLookup(country_name)
                  THEN HTTPException(404, "Item not found", TRUE)
                  ELSE IF SelectSeq(raw, Sub) = <<>>
                  THEN HTTPException(404, "Item not found", TRUE)
                  ELSE Ok(f, <<SelectSeq(raw, Sub)[1]>>)
             ELSE IF SelectSeq(raw, Eq) = <<>>
                  THEN HTTPException(404, "Item not found", TRUE)
                  ELSE Ok(f, <<SelectSeq(raw, Eq)[1]>>)

V2Cases == {s_global, s_confirmed, s_deaths, s_recovered}

get_time_series(f, case, raises) ==
    IF Lower(case) \notin V2Cases
    THEN HTTPException(404, "Item not found", FALSE)
    ELSE IF raises THEN Unhandled(FacadeError, TRUE)
    ELSE Ok(f, <<Lower(case)>>)

(***************************************************************************)
(* The v1 route handlers (main.py:218-305).                                *)
(***************************************************************************)
V1Simple == {"/current", "/current_list", "/total", "/confirmed", "/deaths",
             "/recovered", "/countries"}

\* get_data (get_data.py:103-104): country names stripped, blanks to '_'
V1Name(name) == ReplaceBlanks(Strip(name))

\* the keys of novel_corona_api.get_current_status(): the locations, dt, ts
V1Keys(f) ==
    [i \in 1 .. Len(Datasets[f.ds]) |-> V1Name(Datasets[f.ds][i])] \o <<s_dt, s_ts>>

\* a handler without try: an exception of the facade leaves it
simple_v1(f, raises) ==
    IF raises THEN Unhandled(FacadeError, TRUE) ELSE Ok(f, <<>>)

\* data['dt'] = ...; data['ts'] = ...: a key already present keeps its place
WithKey(keys, k) ==
    IF \E i \in 1 .. Len(keys) : keys[i] = k THEN keys ELSE Append(keys, k)

country(f, country_name, raises) ==
    IF raises THEN Unhandled(FacadeError, TRUE)
    ELSE LET raw == V1Keys(f)
             name == lookup_country(country_name)
             Sub(k) == Contains(Lower(name), Lower(k))
             Eq(k) == Lower(country_name) = Lower(k)
         IN  IF IsIsoCode(country_name)
             THEN IF ~CanLookup(country_name)
                  THEN HTTPException(404, "Item not found", TRUE)
                  ELSE Ok(f, WithKey(WithKey(SelectSeq(raw, Sub), s_dt), s_ts))
             ELSE Ok(f, WithKey(WithKey(SelectSeq(raw, Eq), s_dt), s_ts))

V1Cases == {s_confirmed, s_deaths, s_recovered}

timeseries(f, case, raises) ==
    IF raises THEN Unhandled(FacadeError, TRUE)
    ELSE IF Lower(case) \in V1Cases
    THEN Ok(f, <<Lower(case), s_dt, s_ts>>)
    ELSE HTTPException(404, "Item not found", TRUE)

\* func(*args, **kwargs): the route's handler on the facade the global names
Handle(route, arg, f, raises) ==
    CASE route \in V2Simple -> get_simple_v2(f, raises)
      [] route = "/v2/country" -> get_country(f, arg, raises)
      [] route = "/v2/timeseries" -> get_time_series(f, arg, raises)
      [] route \in V1Simple -> simple_v1(f, raises)
      [] route = "/country" -> country(f, arg, raises)
      [] route = "/timeseries" -> timeseries(f, arg, raises)

IsV2(route) == route \in V2Simple \cup {"/v2/country", "/v2/timeseries"}

VARIABLES
    now,               \* the UTC date of the wall clock (day number)
    ticked,            \* the date changed since the last utcnow() read
    nticks,            \* date changes so far
    remote,            \* url -> status code of the dated resources
    ref,               \* the date read at get_data.py:33 (the reference date)
    current_datetime,  \* get_data.py:33/39
    base_url,          \* get_data.py:34/40
    time_delta,        \* get_data.py:37/41
    ppc,               \* position in get_data_daily_reports
    probed,            \* the urls requested so far, in order
    last_update        \* df['Last_Update'] (get_data.py:51)

probeVars == <<now, ticked, nticks, remote, ref, current_datetime, base_url,
               time_delta, ppc, probed, last_update>>

VARIABLES
    redis,                \* the entry of key 'api_2_model': value and seconds to live
    novel_corona_api_v2,  \* the module global of main.py:61
    novel_corona_api,     \* the module global of main.py:49
    dt,                   \* the module global dt: the facade whose datetime_raw it is
    ts,                   \* the module global ts: the facade whose timestamp it is
    th,                   \* per worker thread: the request it handles and its locals
    nbuilds,              \* facades built so far (NovelCoronaAPI and NovelCoronaAPIv2)
    arrived,              \* requests arrived so far
    nelapsed,             \* steps of time so far
    hits,                 \* requests that loaded the facade from the cache so far
    lastStored,           \* the facade the latest setex wrote
    sinceStore,           \* seconds since the latest setex (at most TTL)
    everStored            \* ids of the facades ever written to the cache

reqVars == <<redis, novel_corona_api_v2, novel_corona_api, dt, ts, th, nbuilds,
             arrived, nelapsed, hits, lastStored, sinceStore, everStored>>

vars == <<probeVars, reqVars>>

\* redis.setex('api_2_model', 3600, ...)
TTL == 3600

Threads == 1 .. NThreads

IdleThread ==
    [pc |-> "idle", route |-> "", arg |-> <<>>, raises |-> FALSE, miss |-> FALSE,
     tmp |-> None, built |-> None, loaded |-> None, nbuilt |-> 0,
     resp |-> NoResponse]

InitRequests ==
    /\ redis = [val |-> None, ttl |-> 0]
    /\ novel_corona_api_v2 = None
    /\ novel_corona_api = None
    /\ dt = 0
    /\ ts = 0
    /\ th = [t \in Threads |-> IdleThread]
    /\ nbuilds = 0
    /\ arrived = 0
    /\ nelapsed = 0
    /\ hits = 0
    /\ lastStored = None
    /\ sinceStore = 0
    /\ everStored = {}

NoDate == <<0, 0, 0>>

\* requests.get(url).status_code
StatusOf(url) == IF url \in DOMAIN remote THEN remote[url] ELSE 404

InitProbe ==
    /\ now \in StartDays
    /\ ticked = FALSE
    /\ nticks = 0
    /\ remote \in [{DailyReportUrl(strftime(d)) : d \in WindowOf(now)} -> StatusCodes]
    /\ ref = now
    /\ current_datetime = NoDate
    /\ base_url = DailyReportUrl(NoDate)
    /\ time_delta = 0
    /\ ppc = "start"
    /\ probed = <<>>
    /\ last_update = NoDate
    /\ InitRequests

\* get_data.py:33-37
ProbeStart ==
    /\ ppc = "start"
    /\ current_datetime' = strftime(now)
    /\ base_url' = DailyReportUrl(strftime(now))
    /\ time_delta' = 1
    /\ ref' = now
    /\ ticked' = FALSE
    /\ ppc' = "loop"
    /\ UNCHANGED <<now, nticks, remote, probed, last_update>>
    /\ UNCHANGED reqVars

\* get_data.py:38-41, the loop condition true: one more step back
ProbeNotFound ==
    /\ ppc = "loop"
    /\ time_delta <= MaxDelta
    /\ StatusOf(base_url) = 404
    /\ probed' = Append(probed, base_url)
    /\ current_datetime' = strftime(StepBack(now, time_delta))
    /\ base_url' = DailyReportUrl(strftime(StepBack(now, time_delta)))
    /\ time_delta' = time_delta + 1
    /\ ticked' = FALSE
    /\ UNCHANGED <<now, nticks, remote, ref, ppc, last_update>>
    /\ UNCHANGED reqVars

\* get_data.py:38, the loop condition false: leave the loop
ProbeFound ==
    /\ ppc = "loop"
    /\ StatusOf(base_url) # 404
    /\ probed' = Append(probed, base_url)
    /\ ppc' = "read_csv"
    /\ UNCHANGED <<now, ticked, nticks, remote, ref, current_datetime, base_url,
                   time_delta, last_update>>
    /\ UNCHANGED reqVars

\* get_data.py:44-53
ProbeReadCsv ==
    /\ ppc = "read_csv"
    /\ last_update' = current_datetime
    /\ ppc' = "done"
    /\ UNCHANGED <<now, ticked, nticks, remote, ref, current_datetime, base_url,
                   time_delta, probed>>
    /\ UNCHANGED reqVars

\* the wall clock passes midnight UTC while a request of the loop is under
\* way: at most one change of date between two reads of utcnow()
ClockTick ==
    /\ ppc = "loop"
    /\ ~ticked
    /\ nticks < MaxClockTicks
    /\ now' = now + 1
    /\ nticks' = nticks + 1
    /\ ticked' = TRUE
    /\ UNCHANGED <<remote, ref, current_datetime, base_url, time_delta, ppc,
                   probed, last_update>>
    /\ UNCHANGED reqVars

\* the day numbers a probe of this run can name
ProbeDays == (ref - 2 * MaxDelta - 2) .. (ref + MaxClockTicks + 1)

UrlOfDay(d) == DailyReportUrl(strftime(d))

NextProbe ==
    \/ ProbeStart
    \/ ProbeNotFound
    \/ ProbeFound
    \/ ProbeReadCsv
    \/ ClockTick

SpecProbe == InitProbe /\ [][NextProbe]_vars

(***************************************************************************)
(* C2: when the probe has left its loop, the date it settled on is not     *)
(* later than the reference date, its resource is not 404 and every later  *)
(* date up to the reference date is 404; the urls are requested from the   *)
(* reference date backward, each the same date as the one before or the    *)
(* day before it, also when the UTC date changes between two requests.     *)
(***************************************************************************)
C2_FirstExistingBackward ==
    /\ ppc \in {"read_csv", "done"} =>
          \E d \in ProbeDays :
              /\ d <= ref
              /\ current_datetime = strftime(d)
              /\ base_url = UrlOfDay(d)
              /\ StatusOf(UrlOfDay(d)) # 404
              /\ \A e \in (d + 1) .. ref : StatusOf(UrlOfDay(e)) = 404
    /\ ppc = "done" => last_update = current_datetime
    /\ Len(probed) >= 1 => probed[1] = UrlOfDay(ref)
    /\ \A i \in 1 .. (Len(probed) - 1) :
          \E d \in ProbeDays :
              /\ probed[i] = UrlOfDay(d)
              /\ probed[i + 1] \in {UrlOfDay(d), UrlOfDay(d - 1)}

\* the probe settled two days back, across a date change of the wall clock
C2_Witness ==
    /\ ppc = "done"
    /\ nticks >= 1
    /\ current_datetime = strftime(ref - 2)
    /\ Len(probed) >= 4

(***************************************************************************)
(* C3: the probe never requests a date more than MaxLookback days before   *)
(* the reference date, and once every date of the lookback window has      *)
(* answered 404 it has stopped with UpstreamNotFound.                      *)
(***************************************************************************)
C3_StopsWithUpstreamNotFound ==
    /\ \A i \in 1 .. Len(probed) :
          \E k \in 0 .. MaxLookback : probed[i] = UrlOfDay(ref - k)
    /\ (\A k \in 0 .. MaxLookback :
            /\ StatusOf(UrlOfDay(ref - k)) = 404
            /\ \E i \in 1 .. Len(probed) : probed[i] = UrlOfDay(ref - k))
          => ppc = "UpstreamNotFound"

(***************************************************************************)
(* Requests: the wrappers reload_model_api_v2 (main.py:57-71) and          *)
(* reload_model (main.py:45-53) around the route handlers.  Every          *)
(* handler is a plain def, which the server runs on a worker thread, so    *)
(* the steps of two requests interleave at each access to redis or to a    *)
(* module global.                                                          *)
(***************************************************************************)
\* redis.get('api_2_model'): None once the entry has expired
redis_get == IF redis.ttl > 0 THEN redis.val ELSE None

\* the requests a client may send: route and path parameter
Requests ==
    {[route |-> r, arg |-> <<>>] : r \in V2Simple \cup V1Simple}
    \cup {[route |-> r, arg |-> c] : r \in {"/v2/country", "/country"}, c \in CountryInputs}
    \cup {[route |-> r, arg |-> c] : r \in {"/v2/timeseries", "/timeseries"}, c \in CaseInputs}

\* the requests sent when several are handled at once
ConcurrentRequests ==
    {[route |-> "/v2/current", arg |-> <<>>], [route |-> "/current", arg |-> <<>>]}

\* no request is being handled
Quiet == \A t \in Threads : th[t].pc = "idle"

\* a request reaches worker t
Arrive(t, rq) ==
    /\ th[t].pc = "idle"
    /\ arrived < MaxReq
    /\ arrived' = arrived + 1
    /\ th' = [th EXCEPT ![t] =
                [IdleThread EXCEPT !.pc = IF IsV2(rq.route) THEN "v2_test" ELSE "v1_build",
                                   !.route = rq.route,
                                   !.arg = rq.arg]]
    /\ UNCHANGED <<redis, novel_corona_api_v2, novel_corona_api, dt, ts, nbuilds,
                   nelapsed, hits, lastStored, sinceStore, everStored>>
    /\ UNCHANGED probeVars

\* main.py:63: if not redis.get('api_2_model')
V2Test(t) ==
    /\ th[t].pc = "v2_test"
    /\ th' = [th EXCEPT ![t].miss = ~Truthy(redis_get),
                        ![t].pc = IF ~Truthy(redis_get) THEN "v2_build" ELSE "v2_get"]
    /\ UNCHANGED <<redis, novel_corona_api_v2, novel_corona_api, dt, ts, nbuilds,
                   arrived, nelapsed, hits, lastStored, sinceStore, everStored>>
    /\ UNCHANGED probeVars

\* main.py:64: novel_corona_api_v2 = NovelCoronaAPIv2()
V2Build(t) ==
    /\ th[t].pc = "v2_build"
    /\ \E ds \in 1 .. Len(Datasets) :
         LET f == NewFacade("v2", nbuilds + 1, ds)
         IN  /\ novel_corona_api_v2' = f
             /\ th' = [th EXCEPT ![t].built = f,
                                 ![t].nbuilt = th[t].nbuilt + 1,
                                 ![t].pc = "v2_dumps"]
    /\ nbuilds' = nbuilds + 1
    /\ UNCHANGED <<redis, novel_corona_api, dt, ts, arrived, nelapsed, hits,
                   lastStored, sinceStore, everStored>>
    /\ UNCHANGED probeVars

\* main.py:65, the argument: pickle.dumps(novel_corona_api_v2)
V2Dumps(t) ==
    /\ th[t].pc = "v2_dumps"
    /\ th' = [th EXCEPT ![t].tmp = pickle_dumps(novel_corona_api_v2),
                        ![t].pc = "v2_setex"]
    /\ UNCHANGED <<redis, novel_corona_api_v2, novel_corona_api, dt, ts, nbuilds,
                   arrived, nelapsed, hits, lastStored, sinceStore, everStored>>
    /\ UNCHANGED probeVars

\* main.py:65: redis.setex('api_2_model', 3600, ...)
V2Setex(t) ==
    /\ th[t].pc = "v2_setex"
    /\ redis' = [val |-> th[t].tmp, ttl |-> TTL]
    /\ lastStored' = pickle_loads(th[t].tmp)
    /\ sinceStore' = 0
    /\ everStored' = everStored \cup {th[t].tmp.id}
    /\ th' = [th EXCEPT ![t].pc = "handler"]
    /\ UNCHANGED <<novel_corona_api_v2, novel_corona_api, dt, ts, nbuilds, arrived,
                   nelapsed, hits>>
    /\ UNCHANGED probeVars

\* main.py:67, the argument: redis.get('api_2_model')
V2Get(t) ==
    /\ th[t].pc = "v2_get"
    /\ th' = [th EXCEPT ![t].tmp = redis_get, ![t].pc = "v2_loads"]
    /\ UNCHANGED <<redis, novel_corona_api_v2, novel_corona_api, dt, ts, nbuilds,
                   arrived, nelapsed, hits, lastStored, sinceStore, everStored>>
    /\ UNCHANGED probeVars

\* main.py:67: novel_corona_api_v2 = pickle.loads(...); pickle.loads(None)
\* raises TypeError, which leaves the wrapper
V2Loads(t) ==
    /\ th[t].pc = "v2_loads"
    /\ IF CanLoad(th[t].tmp)
       THEN /\ novel_corona_api_v2' = pickle_loads(th[t].tmp)
            /\ th' = [th EXCEPT ![t].loaded = pickle_loads(th[t].tmp),
                                ![t].pc = "handler"]
            /\ hits' = hits + 1
       ELSE /\ th' = [th EXCEPT ![t].resp = Unhandled("TypeError", FALSE),
                                ![t].pc = "done"]
            /\ UNCHANGED <<novel_corona_api_v2, hits>>
    /\ UNCHANGED <<redis, novel_corona_api, dt, ts, nbuilds, arrived, nelapsed,
                   lastStored, sinceStore, everStored>>
    /\ UNCHANGED probeVars

\* main.py:50: novel_corona_api = NovelCoronaAPI()
V1Build(t) ==
    /\ th[t].pc = "v1_build"
    /\ \E ds \in 1 .. Len(Datasets) :
         LET f == NewFacade("v1", nbuilds + 1, ds)
         IN  /\ novel_corona_api' = f
             /\ th' = [th EXCEPT ![t].built = f,
                                 ![t].nbuilt = th[t].nbuilt + 1,
                                 ![t].pc = "v1_dt"]
    /\ nbuilds' = nbuilds + 1
    /\ UNCHANGED <<redis, novel_corona_api_v2, dt, ts, arrived, nelapsed, hits,
                   lastStored, sinceStore, everStored>>
    /\ UNCHANGED probeVars

\* main.py:51, right-hand side, first read: novel_corona_api.datetime_raw
V1ReadDt(t) ==
    /\ th[t].pc = "v1_dt"
    /\ th' = [th EXCEPT ![t].tmp = novel_corona_api, ![t].pc = "v1_ts"]
    /\ UNCHANGED <<redis, novel_corona_api_v2, novel_corona_api, dt, ts, nbuilds,
                   arrived, nelapsed, hits, lastStored, sinceStore, everStored>>
    /\ UNCHANGED probeVars

\* main.py:51, second read novel_corona_api.timestamp, then dt, ts = ...
V1ReadTs(t) ==
    /\ th[t].pc = "v1_ts"
    /\ dt' = th[t].tmp.id
    /\ ts' = novel_corona_api.id
    /\ th' = [th EXCEPT ![t].pc = "handler"]
    /\ UNCHANGED <<redis, novel_corona_api_v2, novel_corona_api, nbuilds, arrived,
                   nelapsed, hits, lastStored, sinceStore, everStored>>
    /\ UNCHANGED probeVars

\* the facade a handler finds under its module global
GlobalFacade(route) ==
    IF IsV2(route) THEN novel_corona_api_v2 ELSE novel_corona_api

\* main.py:52 and main.py:69: return func(*args, **kwargs); raises: the
\* facade operation that the handler invokes raises an exception
RunHandler(t, raises) ==
    /\ th[t].pc = "handler"
    /\ th' = [th EXCEPT ![t].resp = Handle(th[t].route, th[t].arg,
                                            GlobalFacade(th[t].route), raises),
                        ![t].raises = raises,
                        ![t].pc = "done"]
    /\ UNCHANGED <<redis, novel_corona_api_v2, novel_corona_api, dt, ts, nbuilds,
                   arrived, nelapsed, hits, lastStored, sinceStore, everStored>>
    /\ UNCHANGED probeVars

\* the response is sent and the worker is free again
Return(t) ==
    /\ th[t].pc = "done"
    /\ th' = [th EXCEPT ![t] = IdleThread]
    /\ UNCHANGED <<redis, novel_corona_api_v2, novel_corona_api, dt, ts, nbuilds,
                   arrived, nelapsed, hits, lastStored, sinceStore, everStored>>
    /\ UNCHANGED probeVars

\* the seconds that may pass in one step of time: the entry written 3599 s
\* ago is live, the entry written 3600 s ago is gone
Elapse == {1, TTL - 1}

\* time passes: redis drops the entry when its time to live is used up
Tick(d) ==
    /\ redis.ttl > 0
    /\ nelapsed < MaxElapse
    /\ nelapsed' = nelapsed + 1
    /\ redis' = IF redis.ttl > d THEN [redis EXCEPT !.ttl = redis.ttl - d]
                ELSE [val |-> None, ttl |-> 0]
    /\ sinceStore' = IF sinceStore + d < TTL THEN sinceStore + d ELSE TTL
    /\ UNCHANGED <<novel_corona_api_v2, novel_corona_api, dt, ts, th, nbuilds,
                   arrived, hits, lastStored, everStored>>
    /\ UNCHANGED probeVars

InitFixedProbe ==
    /\ now = 18322
    /\ ticked = FALSE
    /\ nticks = 0
    /\ remote = [u \in {DailyReportUrl(strftime(18322))} |-> 200]
    /\ ref = 18322
    /\ current_datetime = NoDate
    /\ base_url = DailyReportUrl(NoDate)
    /\ time_delta = 0
    /\ ppc = "idle"
    /\ probed = <<>>
    /\ last_update = NoDate

Init == InitRequests /\ InitFixedProbe

\* requests handled one at a time: a request arrives when no other is handled
ArriveSerial(t, rq) == Quiet /\ Arrive(t, rq)

Next ==
    \/ \E t \in Threads, rq \in Requests : ArriveSerial(t, rq)
    \/ \E t \in Threads : V2Test(t)
    \/ \E t \in Threads : V2Build(t)
    \/ \E t \in Threads : V2Dumps(t)
    \/ \E t \in Threads : V2Setex(t)
    \/ \E t \in Threads : V2Get(t)
    \/ \E t \in Threads : V2Loads(t)
    \/ \E t \in Threads : V1Build(t)
    \/ \E t \in Threads : V1ReadDt(t)
    \/ \E t \in Threads : V1ReadTs(t)
    \/ \E t \in Threads, raises \in BOOLEAN : RunHandler(t, raises)
    \/ \E t \in Threads : Return(t)
    \/ \E d \in Elapse : Tick(d)

Spec == Init /\ [][Next]_vars

\* requests handled at once, each on its own worker thread
NextConcurrent ==
    \/ \E t \in Threads, rq \in ConcurrentRequests : Arrive(t, rq)
    \/ \E t \in Threads : V2Test(t)
    \/ \E t \in Threads : V2Build(t)
    \/ \E t \in Threads : V2Dumps(t)
    \/ \E t \in Threads : V2Setex(t)
    \/ \E t \in Threads : V2Get(t)
    \/ \E t \in Threads : V2Loads(t)
    \/ \E t \in Threads : V1Build(t)
    \/ \E t \in Threads : V1ReadDt(t)
    \/ \E t \in Threads : V1ReadTs(t)
    \/ \E t \in Threads, raises \in BOOLEAN : RunHandler(t, raises)
    \/ \E t \in Threads : Return(t)
    \/ \E d \in Elapse : Tick(d)

SpecConcurrent == Init /\ [][NextConcurrent]_vars

(***************************************************************************)
(* Properties of the requests.                                             *)
(***************************************************************************)
\* worker t has finished the handler of a request
Done(t) == th[t].pc = "done"

IsLocationKey(k) == k \notin {s_dt, s_ts}

\* the location records a country response carries
LocationKeys(resp) == SelectSeq(resp.keys, IsLocationKey)

\* the location names the facade of a version holds, in source order
SourceLocations(route, ds) ==
    IF IsV2(route) THEN V2Locations(NewFacade("v2", 0, ds))
    ELSE SelectSeq(V1Keys(NewFacade("v1", 0, ds)), IsLocationKey)

\* the matching rule of the country routes: x matches location loc
MatchesLocation(x, loc) ==
    IF IsIsoCode(x)
    THEN CanLookup(x) /\ Contains(Lower(lookup_country(x)), Lower(loc))
    ELSE Lower(x) = Lower(loc)

\* the facade a finished request of worker t was served from
ServedBy(t) == IF IsV2(th[t].route) THEN novel_corona_api_v2 ELSE novel_corona_api

(***************************************************************************)
(* C1: with requests handled one at a time, a v2 request that finds no     *)
(* live cache entry builds the facade exactly once, while the entry is     *)
(* still absent, and stores it with a time to live of 3600 s; a request    *)
(* that finds a live entry and loads it before it expires builds nothing   *)
(* and is served from a facade equal to the stored one; after the entry    *)
(* has expired the next request builds again.                              *)
(***************************************************************************)
C1_CacheAside ==
    \A t \in Threads :
        LET r == th[t] IN
        /\ r.nbuilt <= 1
        /\ r.pc \in {"v2_build", "v2_dumps", "v2_setex"} => r.miss /\ redis_get = None
        /\ r.pc \in {"v2_dumps", "v2_setex"} => r.nbuilt = 1
        /\ r.pc \in {"v2_get", "v2_loads"} => ~r.miss /\ r.nbuilt = 0
        /\ (IsV2(r.route) /\ r.pc \in {"handler", "done"} /\ r.miss) =>
               /\ r.nbuilt = 1
               /\ lastStored = r.built
               /\ novel_corona_api_v2 = r.built
               /\ sinceStore < TTL =>
                    redis = [val |-> pickle_dumps(r.built), ttl |-> TTL - sinceStore]
               /\ sinceStore >= TTL => redis_get = None
               /\ (r.pc = "done" /\ r.resp.status = 200 /\ r.resp.called) =>
                    r.resp.facade = r.built.id
        /\ (IsV2(r.route) /\ r.pc \in {"handler", "done"} /\ ~r.miss
              /\ r.resp.exc # "TypeError") =>
               /\ r.nbuilt = 0
               /\ r.loaded = lastStored
               /\ r.loaded.tag = "facade"
               /\ novel_corona_api_v2 = lastStored
               /\ (r.pc = "done" /\ r.resp.status = 200 /\ r.resp.called) =>
                    r.resp.facade = lastStored.id

\* a build, then a request served from the cache, then, the entry having
\* expired, a second build
C1_Witness ==
    \E t \in Threads :
        /\ Done(t)
        /\ th[t].miss
        /\ th[t].built.id = 2
        /\ th[t].resp.status = 200
        /\ hits = 1
        /\ arrived = 3

(***************************************************************************)
(* C4: a finished country request (v1 or v2) whose facade operation        *)
(* returned answers 404 "Item not found" when no location matches or the   *)
(* code cannot be resolved, and never 200 without a matched location.      *)
(***************************************************************************)
C4_NoMatchIs404 ==
    \A t \in Threads :
        (Done(t) /\ th[t].route \in {"/country", "/v2/country"} /\ ~th[t].raises) =>
            LET r == th[t]
                locs == SourceLocations(r.route, ServedBy(t).ds)
                nomatch == \A i \in 1 .. Len(locs) : ~MatchesLocation(r.arg, locs[i])
            IN  /\ nomatch => r.resp.status = 404 /\ r.resp.detail = "Item not found"
                /\ r.resp.status = 200 => LocationKeys(r.resp) # <<>>

(***************************************************************************)
(* C5: a country response (v1 or v2) that carries location records         *)
(* carries exactly one, the first location in source order that matches    *)
(* the input under the route's rule.                                       *)
(***************************************************************************)
C5_FirstMatchOnly ==
    \A t \in Threads :
        (Done(t) /\ th[t].route \in {"/country", "/v2/country"}
           /\ th[t].resp.status = 200 /\ LocationKeys(th[t].resp) # <<>>) =>
            LET r == th[t]
                locs == SourceLocations(r.route, ServedBy(t).ds)
            IN  /\ Len(LocationKeys(r.resp)) = 1
                /\ \E i \in 1 .. Len(locs) :
                     /\ LocationKeys(r.resp)[1] = locs[i]
                     /\ MatchesLocation(r.arg, locs[i])
                     /\ \A j \in 1 .. (i - 1) : ~MatchesLocation(r.arg, locs[j])

(***************************************************************************)
(* C6: on every v2 route, a request whose facade operation raised answers  *)
(* 400 with the exception text.                                            *)
(***************************************************************************)
C6_FacadeErrorIs400 ==
    \A t \in Threads :
        (Done(t) /\ IsV2(th[t].route) /\ th[t].raises /\ th[t].resp.called) =>
            th[t].resp.status = 400 /\ th[t].resp.detail = FacadeError

(***************************************************************************)
(* C7: a finished time-series request whose facade operation did not       *)
(* raise is answered 200 exactly when lower(case) is one of the version's  *)
(* cases ({confirmed, deaths, recovered} in v1, these and global in v2)    *)
(* and 404 "Item not found" for every other case, and v2 rejects a case    *)
(* without invoking the facade.                                            *)
(***************************************************************************)
C7_CaseValidation ==
    \A t \in Threads :
        LET r == th[t]
            cases == IF r.route = "/timeseries"
                     THEN {s_confirmed, s_deaths, s_recovered}
                     ELSE {s_global, s_confirmed, s_deaths, s_recovered}
            accepted == Lower(r.arg) \in cases
        IN  (Done(t) /\ r.route \in {"/timeseries", "/v2/timeseries"} /\ ~r.raises) =>
                /\ r.resp.status = 200 <=> accepted
                /\ ~accepted => r.resp.status = 404 /\ r.resp.detail = "Item not found"
                /\ (~accepted /\ r.route = "/v2/timeseries") => ~r.resp.called

\* the wrapper of worker t's request has run the route's handler
HandlerRan(t) == Done(t) /\ th[t].resp.exc # "TypeError"

\* the validation of the two handlers themselves: once a handler has run,
\* 200 means an accepted case and 404 a rejected one, and with the facade
\* operation returning an accepted case is answered 200, a rejected one 404
TimeSeriesHandlerValidation ==
    \A t \in Threads :
        LET r == th[t]
            cases == IF r.route = "/timeseries"
                     THEN {s_confirmed, s_deaths, s_recovered}
                     ELSE {s_global, s_confirmed, s_deaths, s_recovered}
            accepted == Lower(r.arg) \in cases
        IN  (HandlerRan(t) /\ r.route \in {"/timeseries", "/v2/timeseries"}) =>
                /\ r.resp.status = 200 => accepted /\ r.resp.keys[1] = Lower(r.arg)
                /\ r.resp.status = 404 => ~accepted /\ r.resp.detail = "Item not found"
                /\ (accepted /\ ~r.raises) => r.resp.status = 200
                /\ (~accepted /\ ~r.raises) => r.resp.status = 404
                /\ (~accepted /\ r.route = "/v2/timeseries") =>
                     r.resp.status = 404 /\ ~r.resp.called

(***************************************************************************)
(* C8: the response of a v1 request is computed from the facade that the   *)
(* same request built in reload_model.                                     *)
(***************************************************************************)
C8_V1OwnFacade ==
    \A t \in Threads :
        (Done(t) /\ ~IsV2(th[t].route) /\ th[t].resp.status = 200) =>
            th[t].resp.facade = th[t].built.id

(***************************************************************************)
(* C9: (a) when no v2 request is under way and the latest write has not    *)
(* expired, the cache holds the facade of the latest setex with 3600 s     *)
(* counted from that write; (b) a v2 request that serves a response        *)
(* serves it from the facade it built or from one that was written to the  *)
(* cache.                                                                  *)
(***************************************************************************)
C9_LastWriterWinsBenign ==
    /\ ((\A t \in Threads : th[t].pc \in {"idle", "done"})
          /\ lastStored.tag = "facade" /\ sinceStore < TTL) =>
            redis = [val |-> pickle_dumps(lastStored), ttl |-> TTL - sinceStore]
    /\ \A t \in Threads :
          (Done(t) /\ IsV2(th[t].route) /\ th[t].resp.status = 200) =>
              \/ th[t].resp.facade = th[t].built.id
              \/ th[t].resp.facade \in everStored

(***************************************************************************)
(* C10: no v2 request ends with pickle.loads applied to None, whenever     *)
(* the cache entry expires.                                                *)
(***************************************************************************)
C10_NeverLoadsNone ==
    \A t \in Threads :
        /\ th[t].resp.exc # "TypeError"
        /\ th[t].pc = "v2_loads" => CanLoad(th[t].tmp)

====
